---------------------------- MODULE Spec2Model ----------------------------
(***************************************************************************)
(* Growatt solar power monitor (code.py): the login / poll retry loops of  *)
(* GrowattApi, the Wi-Fi controller they escalate to, and the main         *)
(* orchestration loop that drives them.                                    *)
(*                                                                         *)
(* One step of the model is one pass through a try/except of the source    *)
(* (one attempt of login or get_plant_info with its handler), one pass of  *)
(* the connect loop, or one handler of the main loop.  The environment     *)
(* chooses what every request returns and may drop the link at any time.   *)
(***************************************************************************)
EXTENDS Integers, Sequences, FiniteSets, TLC

(***************************************************************************)
(* Program constants.                                                      *)
(***************************************************************************)
\* login: for i in range(1, 3) ... if i >= 2: raise SerialLoginErrors
LoginRangeStart_Late == 1 + 1
LoginRangeStart == 1
LoginRangeStop == 3
LoginGiveUpAt_Never == 2 + 1
LoginGiveUpAt == 2
\* get_plant_info: for i in range(1, 4) ... if i >= 3: raise NotLoggedIn
PollRangeStart == 1
PollRangeStop == 4
PollGiveUpAt_Early == 3 - 1
PollGiveUpAt == 3
\* time.sleep(20) in both retry handlers
RetryDelay_Short == 20 - 10
RetryDelay == 20
\* time.sleep(60 * 2) and time.sleep(60 * 20) in the main loop
ShortInterval == 120
LongInterval == 1200
\* time.sleep(10) in the catch-all handler
UnknownDelay == 10
\* SolarPowerDisplay.minimum_power_threshold
minimum_power_threshold == 10
\* response.status_code != 200
StatusOK == 200
\* a status the service answers with when the session is gone
StatusOther == 500

(***************************************************************************)
(* Bounds of the model: how many distinct cookies and plants the service   *)
(* can hand out.                                                           *)
(***************************************************************************)
MaxCookie == 2
MaxPlant == 2

None == 0
CookieValues == 1..MaxCookie
PlantValues == 1..MaxPlant

(***************************************************************************)
(* Exceptions.  An error is its class and str(error).                      *)
(***************************************************************************)
Err(c, m) == [cls |-> c, msg |-> m]
NoError == Err("none", "")

\* raise WiFiNotConnected("Wifi not connected")
WiFiNotConnectedError == Err("WiFiNotConnected", "Wifi not connected")
\* raise NotLoggedIn (login) / raise NotLoggedIn("Apparently not logged in")
LoginRejected == Err("NotLoggedIn", "")
SessionInvalid == Err("NotLoggedIn", "Apparently not logged in")
\* the errors raised when the attempts are used up
SerialLoginError == Err("SerialLoginErrors", "Serial login errors. Let's try something else!")
PollGiveUpError == Err("NotLoggedIn", "Serial errors. Trying login again.")

\* What requests.post / requests.get can raise instead of returning a
\* response: the ESP32 SPI driver's RuntimeErrors, adafruit_requests'
\* OutOfRetries, and an error of a class no handler names.
RequestErrors ==
    { Err("RuntimeError", "Error response to command"),
      Err("RuntimeError", "ESP32 not responding"),
      Err("OutOfRetries", "Repeated socket failures"),
      Err("OSError", "Failed to send bytes") }

\* login: except(RuntimeError, ValueError, requests.OutOfRetries, WiFiNotConnected)
LoginRetryClasses_AlsoNotLoggedIn ==
    {"RuntimeError", "ValueError", "OutOfRetries", "WiFiNotConnected", "NotLoggedIn"}
LoginRetryClasses == {"RuntimeError", "ValueError", "OutOfRetries", "WiFiNotConnected"}

\* get_plant_info: except(RuntimeError, ValueError, requests.OutOfRetries, WiFiNotConnected)
PollRetryClasses_AlsoNotLoggedIn ==
    {"RuntimeError", "ValueError", "OutOfRetries", "WiFiNotConnected", "NotLoggedIn"}
PollRetryClasses == {"RuntimeError", "ValueError", "OutOfRetries", "WiFiNotConnected"}


(***************************************************************************)
(* float() and int() on the text of the power field.  A field is a         *)
(* sequence of characters; float accepts an optional sign, digits and at   *)
(* most one decimal point with at least one digit, and raises ValueError   *)
(* on anything else.  The float is kept exactly, as num / den with den a   *)
(* power of ten; int() truncates it toward zero.                           *)
(***************************************************************************)
Digits == {"0", "1", "2", "3", "4", "5", "6", "7", "8", "9"}

DigitValue(c) ==
    CASE c = "0" -> 0 [] c = "1" -> 1 [] c = "2" -> 2 [] c = "3" -> 3
      [] c = "4" -> 4 [] c = "5" -> 5 [] c = "6" -> 6 [] c = "7" -> 7
      [] c = "8" -> 8 [] c = "9" -> 9

Unsigned(s) == IF Len(s) > 0 /\ s[1] \in {"-", "+"} THEN Tail(s) ELSE s

IsNumeral(s) ==
    LET u == Unsigned(s)
    IN  /\ \A k \in 1..Len(u) : u[k] \in Digits \cup {"."}
        /\ Cardinality({k \in 1..Len(u) : u[k] = "."}) <= 1
        /\ \E k \in 1..Len(u) : u[k] \in Digits

RECURSIVE Mantissa(_)
Mantissa(u) ==
    IF u = <<>> THEN 0
    ELSE LET last == u[Len(u)]
             rest == SubSeq(u, 1, Len(u) - 1)
         IN  IF last = "." THEN Mantissa(rest)
             ELSE 10 * Mantissa(rest) + DigitValue(last)

RECURSIVE Pow10(_)
Pow10(n) == IF n = 0 THEN 1 ELSE 10 * Pow10(n - 1)

FractionDigits(u) ==
    IF \E k \in 1..Len(u) : u[k] = "."
    THEN Len(u) - (CHOOSE k \in 1..Len(u) : u[k] = ".")
    ELSE 0

\* float(s) for a numeral s
Float(s) ==
    LET u == Unsigned(s)
    IN  [neg |-> Len(s) > 0 /\ s[1] = "-",
         num |-> Mantissa(u),
         den |-> Pow10(FractionDigits(u))]

\* round(x) in place of int(x): the nearest integer
IntOfFloat_Round(x) ==
    LET n == (2 * x.num + x.den) \div (2 * x.den)
    IN  IF x.neg THEN 0 - n ELSE n

\* int(x) for a float x: truncation toward zero
IntOfFloat(x) == IF x.neg THEN 0 - (x.num \div x.den) ELSE x.num \div x.den

(***************************************************************************)
(* What the service can answer.                                            *)
(***************************************************************************)
NoResponse == [kind |-> "none"]

\* The texts of the power field the service is seen to send.
PowerTexts ==
    { <<"1", "2", ".", "9">>, <<"9", ".", "9">>, <<"1", "0">>,
      <<"-", "0", ".", "5">>, <<"a", "b", "c">>, <<>> }

\* deviceList[0]['power']: absent, null, or a text
PowerFields ==
    { [tag |-> "missing", text |-> <<>>], [tag |-> "null", text |-> <<>>] }
    \cup { [tag |-> "str", text |-> t] : t \in PowerTexts }

\* The body of a poll response: not JSON, or JSON whose deviceList is
\* absent, null, or a list of at most one device.
PollBodies ==
    { [json |-> FALSE, deviceList |-> "missing", devices |-> <<>>],
      [json |-> TRUE, deviceList |-> "missing", devices |-> <<>>],
      [json |-> TRUE, deviceList |-> "null", devices |-> <<>>],
      [json |-> TRUE, deviceList |-> "list", devices |-> <<>>] }
    \cup { [json |-> TRUE, deviceList |-> "list", devices |-> << [power |-> f] >>]
           : f \in PowerFields }

PollResponses ==
    { [kind |-> "poll", status |-> StatusOther,
       body |-> [json |-> FALSE, deviceList |-> "missing", devices |-> <<>>]] }
    \cup { [kind |-> "poll", status |-> StatusOK, body |-> b] : b \in PollBodies }

\* The list of plants of a login response: empty, or one or two plants.
PlantLists ==
    { <<>> } \cup { <<a>> : a \in PlantValues }
    \cup { p \in PlantValues \X PlantValues : p[1] # p[2] }

\* A login response: whether the body is JSON, back.success, whether
\* back.user is there, back.data, and the set-cookie header (None: absent).
LoginResponse(j, s, u, p, c) ==
    [kind |-> "login", json |-> j, success |-> s, user |-> u, plants |-> p,
     cookie |-> c]

LoginResponses ==
    { LoginResponse(FALSE, FALSE, FALSE, <<>>, None),
      LoginResponse(TRUE, FALSE, FALSE, <<>>, None),
      LoginResponse(TRUE, TRUE, FALSE, <<>>, None) }
    \cup { LoginResponse(TRUE, TRUE, FALSE, <<a>>, c)
           : a \in PlantValues, c \in CookieValues }
    \cup { LoginResponse(TRUE, TRUE, TRUE, p, c)
           : p \in PlantLists, c \in CookieValues \cup {None} }

\* hash_password with the loop visiting every index
hash_step_Every == 2 - 1
\* range(0, len(password_md5), 2), line 181
hash_step == 2

\* The loop of hash_password from index k on (k counts from 0), lines 181-183
RECURSIVE hash_loop(_, _)
hash_loop(s, k) ==
    IF k >= Len(s) THEN s
    ELSE hash_loop(IF s[k + 1] = "0"
                   THEN SubSeq(s, 1, k) \o <<"c">> \o SubSeq(s, k + 2, Len(s))
                   ELSE s,
                   k + hash_step)

\* hash_password applied to the md5 hexdigest h of the password
hash_password(h) == hash_loop(h, 0)

\* Hexdigests tried: every sequence of at most MaxHashLen of these digits
HexDigits == {"0", "1", "c", "f"}
MaxHashLen == 4
HexStrings == UNION { [1..n -> HexDigits] : n \in 0..MaxHashLen }
\* the hexdigest of the configured password in the runs of the whole program
SampleMd5 == <<"0", "0", "c", "f">>

(***************************************************************************)
(* The state.                                                              *)
(***************************************************************************)
VARIABLES
    env,                \* what the link and the service do from here on, see Unsettled
    always_retry_after_any_exception, \* the option of line 24
    plant_id,           \* secrets["growatt_plant_id"], None when not given
    password_md5,       \* md5(secrets["password"]).hexdigest(), a sequence of characters
    password,           \* the local of login: the hashed password it posts
    pc,                 \* where the main loop is
    ret,                \* where WiFiControl.connect returns to
    connected,          \* wifi.esp.is_connected
    ap_failed,          \* a connect_AP of the current or last connect() raised RuntimeError
    op,                 \* the call in progress or last made: login / poll
    i,                  \* the loop variable of the attempt loop
    api_plant_id,       \* GrowattApi.plant_id
    api_cookies,        \* GrowattApi.cookies
    headers,            \* GrowattApi.headers
    api_power,          \* GrowattApi.power: <<>> is None, <<w>> is w
    readout,            \* display.readout
    request,            \* the last request sent
    response,           \* the response the last attempt received
    response_open,      \* that response has not been closed
    caught,             \* the error the retry handler last caught in this call
    raised,             \* the error propagating to the main loop
    reqs,               \* requests sent by this call
    fails,              \* errors caught by the retry handler in this call
    waits,              \* time.sleep(20) done by this call
    resets,             \* wifi.reset() done by this call
    connects,           \* wifi.connect() done by this call
    main_resets,        \* wifi.reset() done by the main loop since the last call
    last_sleep,         \* seconds slept by the last step of the program
    relogin_needed,     \* get_plant_info raised NotLoggedIn and no login succeeded since
    exit_status         \* the argument of exit(), 0 while running

config == <<always_retry_after_any_exception, plant_id, password_md5>>
session == <<api_plant_id, api_cookies>>
link == <<connected, ap_failed>>
wire == <<request, response, response_open>>
effects == <<reqs, fails, waits, resets, connects>>
vars == <<env, config, password, pc, ret, link, op, i, session, headers, api_power, readout,
          wire, caught, raised, effects, main_resets, last_sleep,
          relogin_needed, exit_status>>

\* GrowattApi.headers as the class defines it; Cookie = None: no such key
ClassHeaders ==
    [User_Agent |-> "Adafruit CircuitPython",
     Accept_Encoding |-> "gzip, deflate",
     Accept |-> "*/*",
     Connection |-> "keep-alive",
     Content_Type |-> "application/x-www-form-urlencoded",
     Cookie |-> None]

NoRequest == [kind |-> "none", headers |-> ClassHeaders, plantId |-> None]

Readout(t, w) == [text |-> t, watts |-> w]

\* The link may drop, connect_AP may fail and the service may answer
\* anything or not at all
Unsettled == [mode |-> "any", at |-> "none"]

\* The state at "while True" of line 318, whatever the password
Start ==
    /\ env = Unsettled
    /\ always_retry_after_any_exception \in BOOLEAN
    /\ plant_id \in PlantValues \cup {None}
    /\ password = <<>>
    /\ pc = "main_login"
    /\ ret = "main_login"
    /\ connected = TRUE
    /\ ap_failed = FALSE
    /\ op = "none"
    /\ i = 0
    /\ api_plant_id = None
    /\ api_cookies = None
    /\ headers = ClassHeaders
    /\ api_power = <<>>
    /\ readout = Readout("Logging in", 0)
    /\ request = NoRequest
    /\ response = NoResponse
    /\ response_open = FALSE
    /\ caught = NoError
    /\ raised = NoError
    /\ reqs = 0 /\ fails = 0 /\ waits = 0 /\ resets = 0 /\ connects = 0
    /\ main_resets = 0
    /\ last_sleep = 0
    /\ relogin_needed = FALSE
    /\ exit_status = 0

Init ==
    /\ password_md5 = SampleMd5
    /\ Start

(***************************************************************************)
(* WiFiControl.                                                            *)
(***************************************************************************)
\* One pass of the loop of connect(): while not self.esp.is_connected,
\* connect_AP either connects or raises RuntimeError, which is printed and
\* swallowed.
WifiConnectAP ==
    /\ pc = "wifi_connect"
    /\ ~connected
    /\ \E ok \in BOOLEAN :
         /\ connected' = ok
         /\ ap_failed' = (ap_failed \/ ~ok)
    /\ last_sleep' = 0
    /\ UNCHANGED <<config, env, password, pc, ret, op, i, session, headers, api_power, readout,
                   wire, caught, raised, effects, main_resets, relogin_needed,
                   exit_status>>

\* WifiConnectReturn without the loop condition: connect returns at once
WifiConnectReturn_Unchecked ==
    /\ pc = "wifi_connect"
    /\ pc' = ret
    /\ last_sleep' = 0
    /\ UNCHANGED <<config, env, password, ret, link, op, i, session, headers, api_power,
                   readout, wire, caught, raised, effects, main_resets,
                   relogin_needed, exit_status>>

\* connect() leaves its loop with the link up, sets the socket interface
\* and returns to its caller.
WifiConnectReturn ==
    /\ pc = "wifi_connect"
    /\ connected
    /\ pc' = ret
    /\ last_sleep' = 0
    /\ UNCHANGED <<config, env, password, ret, link, op, i, session, headers, api_power, readout,
                   wire, caught, raised, effects, main_resets, relogin_needed,
                   exit_status>>

\* The environment: the link drops.
LinkDrop ==
    /\ pc # "exited"
    /\ connected
    /\ connected' = FALSE
    /\ UNCHANGED <<config, env, password, pc, ret, ap_failed, op, i, session, headers, api_power,
                   readout, wire, caught, raised, effects, main_resets, last_sleep,
                   relogin_needed, exit_status>>

(***************************************************************************)
(* GrowattApi.login.                                                       *)
(***************************************************************************)
\* LoginBody without "if self.plant_id is None": the plant of the response
\* is taken on every login.
LoginBody_AlwaysDefault(r) ==
    LET keep(e, o) == [error |-> e, plant_id |-> api_plant_id,
                       cookies |-> api_cookies, open |-> o]
    IN  IF ~r.json THEN keep(Err("ValueError", "syntax error in JSON"), TRUE)
        ELSE IF ~r.success THEN keep(LoginRejected, FALSE)
        ELSE IF ~r.user THEN keep(Err("KeyError", "user"), TRUE)
        ELSE IF r.plants = <<>>
             THEN keep(Err("IndexError", "list index out of range"), TRUE)
        ELSE IF r.cookie = None
             THEN [error |-> Err("KeyError", "set-cookie"), plant_id |-> r.plants[1],
                   cookies |-> api_cookies, open |-> TRUE]
             ELSE [error |-> NoError, plant_id |-> r.plants[1], cookies |-> r.cookie,
                   open |-> FALSE]

\* The try body of login after requests.post returned r, lines 236-254:
\* the error it ends with (NoError: return), plant_id and cookies as it
\* leaves them, and whether it leaves the response open.
LoginBody(r) ==
    LET keep(e, o) == [error |-> e, plant_id |-> api_plant_id,
                       cookies |-> api_cookies, open |-> o]
    IN  IF ~r.json THEN keep(Err("ValueError", "syntax error in JSON"), TRUE)
        ELSE IF ~r.success THEN keep(LoginRejected, FALSE)
        ELSE IF ~r.user THEN keep(Err("KeyError", "user"), TRUE)
        ELSE IF api_plant_id = None /\ r.plants = <<>>
             THEN keep(Err("IndexError", "list index out of range"), TRUE)
        ELSE LET pid == IF api_plant_id = None THEN r.plants[1] ELSE api_plant_id
             IN  IF r.cookie = None
                 THEN [error |-> Err("KeyError", "set-cookie"), plant_id |-> pid,
                       cookies |-> api_cookies, open |-> TRUE]
                 ELSE [error |-> NoError, plant_id |-> pid, cookies |-> r.cookie,
                       open |-> FALSE]

\* Where the for loop of login goes after a handler that did not raise:
\* the next attempt, or off the end of the loop (login returns None).
LoginNextPc == IF i + 1 < LoginRangeStop THEN "login_try" ELSE "main_poll"

\* The handler of login, lines 256-268, for a caught error e.
LoginExcept(e) ==
    /\ caught' = e
    /\ fails' = fails + 1
    /\ IF i >= LoginGiveUpAt
       THEN /\ raised' = SerialLoginError
            /\ pc' = "main_except"
            /\ last_sleep' = 0
            /\ UNCHANGED <<ret, link, i, waits, resets, connects>>
       ELSE /\ raised' = NoError
            /\ i' = i + 1
            /\ IF e.msg # "WiFi not connected"
               THEN IF e.msg # "Error response to command"
                    THEN \* time.sleep(20)
                         /\ last_sleep' = RetryDelay
                         /\ waits' = waits + 1
                         /\ pc' = LoginNextPc
                         /\ UNCHANGED <<ret, link, resets, connects>>
                    ELSE \* wifi.reset()
                         /\ last_sleep' = 0
                         /\ resets' = resets + 1
                         /\ connected' = FALSE
                         /\ ap_failed' = FALSE
                         /\ pc' = "wifi_connect"
                         /\ ret' = LoginNextPc
                         /\ UNCHANGED <<waits, connects>>
               ELSE \* wifi.connect()
                    /\ last_sleep' = 0
                    /\ connects' = connects + 1
                    /\ ap_failed' = FALSE
                    /\ pc' = "wifi_connect"
                    /\ ret' = LoginNextPc
                    /\ UNCHANGED <<connected, waits, resets>>

\* How one pass of the try of login ends with error e (NoError: return).
LoginEnd(e) ==
    IF e = NoError
    THEN /\ pc' = "main_poll"
         /\ relogin_needed' = FALSE
         /\ last_sleep' = 0
         /\ UNCHANGED <<ret, link, i, caught, raised, fails, waits, resets, connects>>
    ELSE IF e.cls \in LoginRetryClasses
    THEN /\ LoginExcept(e)
         /\ UNCHANGED relogin_needed
    ELSE /\ raised' = e
         /\ pc' = "main_except"
         /\ last_sleep' = 0
         /\ UNCHANGED <<ret, link, i, caught, fails, waits, resets, connects,
                        relogin_needed>>

\* api.login(username, password, plant_id) is called: lines 322, 221-225.
MainLogin ==
    /\ pc = "main_login"
    /\ op' = "login"
    /\ password' = hash_password(password_md5)
    /\ api_plant_id' = IF plant_id # None THEN plant_id ELSE api_plant_id
    /\ i' = LoginRangeStart
    /\ pc' = "login_try"
    /\ caught' = NoError
    /\ raised' = NoError
    /\ reqs' = 0 /\ fails' = 0 /\ waits' = 0 /\ resets' = 0 /\ connects' = 0
    /\ main_resets' = 0
    /\ last_sleep' = 0
    /\ UNCHANGED <<config, env, ret, link, api_cookies, headers, api_power,
                   readout, wire, relogin_needed, exit_status>>

\* One pass of the for loop of login, lines 226-268.
LoginAttempt ==
    /\ pc = "login_try"
    /\ \/ /\ ~connected
          /\ LoginEnd(WiFiNotConnectedError)
          /\ UNCHANGED <<session, wire, reqs>>
       \/ /\ connected
          /\ reqs' = reqs + 1
          /\ request' = [kind |-> "login", headers |-> headers, plantId |-> None]
          /\ \/ \E e \in RequestErrors :
                  /\ LoginEnd(e)
                  /\ response' = NoResponse
                  /\ UNCHANGED <<session, response_open>>
             \/ \E r \in LoginResponses :
                  LET b == LoginBody(r)
                  IN  /\ response' = r
                      /\ response_open' = b.open
                      /\ api_plant_id' = b.plant_id
                      /\ api_cookies' = b.cookies
                      /\ LoginEnd(b.error)
    /\ UNCHANGED <<config, env, password, op, headers, api_power, readout, main_resets, exit_status>>

(***************************************************************************)
(* GrowattApi.get_plant_info.                                              *)
(***************************************************************************)
\* The try body of get_plant_info after requests.get returned r, lines
\* 284-297: the error it ends with (NoError: return), power as it leaves
\* it, and whether it leaves the response open.
PollBody(r) ==
    LET keep(e, o) == [error |-> e, power |-> api_power, open |-> o]
        b == r.body
    IN  IF r.status # StatusOK THEN keep(SessionInvalid, FALSE)
        ELSE IF ~b.json THEN keep(Err("ValueError", "syntax error in JSON"), TRUE)
        ELSE IF b.deviceList = "missing" THEN keep(Err("KeyError", "deviceList"), TRUE)
        ELSE IF b.deviceList = "null"
             THEN keep(Err("TypeError", "'NoneType' object isn't subscriptable"), TRUE)
        ELSE IF b.devices = <<>>
             THEN keep(Err("IndexError", "list index out of range"), TRUE)
        ELSE LET current_reading == b.devices[1].power
             IN  IF current_reading.tag = "missing"
                 THEN keep(Err("KeyError", "power"), TRUE)
                 ELSE IF current_reading.tag = "null"
                 THEN keep(Err("TypeError", "can't convert NoneType to float"), FALSE)
                 ELSE IF ~IsNumeral(current_reading.text)
                 THEN keep(Err("ValueError", "invalid syntax for number"), FALSE)
                 ELSE [error |-> NoError,
                       power |-> << IntOfFloat(Float(current_reading.text)) >>,
                       open |-> FALSE]

\* Where the for loop of get_plant_info goes after a handler that did not
\* raise: the next attempt, or off the end of the loop (returns None).
PollNextPc == IF i + 1 < PollRangeStop THEN "poll_try" ELSE "main_show"

\* The handler of get_plant_info, lines 299-312, for a caught error e.
PollExcept(e) ==
    /\ caught' = e
    /\ fails' = fails + 1
    /\ IF i >= PollGiveUpAt
       THEN /\ raised' = PollGiveUpError
            /\ pc' = "main_except"
            /\ last_sleep' = 0
            /\ UNCHANGED <<ret, link, i, waits, resets, connects>>
       ELSE /\ raised' = NoError
            /\ i' = i + 1
            /\ IF e.msg # "WiFi not connected"
               THEN IF e.msg # "Error response to command"
                    THEN \* time.sleep(20)
                         /\ last_sleep' = RetryDelay
                         /\ waits' = waits + 1
                         /\ pc' = PollNextPc
                         /\ UNCHANGED <<ret, link, resets, connects>>
                    ELSE \* wifi.reset()
                         /\ last_sleep' = 0
                         /\ resets' = resets + 1
                         /\ connected' = FALSE
                         /\ ap_failed' = FALSE
                         /\ pc' = "wifi_connect"
                         /\ ret' = PollNextPc
                         /\ UNCHANGED <<waits, connects>>
               ELSE \* wifi.connect()
                    /\ last_sleep' = 0
                    /\ connects' = connects + 1
                    /\ ap_failed' = FALSE
                    /\ pc' = "wifi_connect"
                    /\ ret' = PollNextPc
                    /\ UNCHANGED <<connected, waits, resets>>

\* How one pass of the try of get_plant_info ends with error e (NoError:
\* return).
PollEnd(e) ==
    IF e = NoError
    THEN /\ pc' = "main_show"
         /\ last_sleep' = 0
         /\ UNCHANGED <<ret, link, i, caught, raised, fails, waits, resets, connects,
                        relogin_needed>>
    ELSE IF e.cls \in PollRetryClasses
    THEN /\ PollExcept(e)
         /\ relogin_needed' = (relogin_needed \/ raised'.cls = "NotLoggedIn")
    ELSE /\ raised' = e
         /\ pc' = "main_except"
         /\ last_sleep' = 0
         /\ relogin_needed' = (relogin_needed \/ e.cls = "NotLoggedIn")
         /\ UNCHANGED <<ret, link, i, caught, fails, waits, resets, connects>>

\* The inner loop shows the placeholder and calls api.get_plant_info():
\* lines 325-326, 271.
MainPoll ==
    /\ pc = "main_poll"
    /\ readout' = Readout(". . .", 0)
    /\ op' = "poll"
    /\ i' = PollRangeStart
    /\ pc' = "poll_try"
    /\ caught' = NoError
    /\ raised' = NoError
    /\ reqs' = 0 /\ fails' = 0 /\ waits' = 0 /\ resets' = 0 /\ connects' = 0
    /\ main_resets' = 0
    /\ last_sleep' = 0
    /\ UNCHANGED <<config, env, password, ret, link, session, headers, api_power, wire,
                   relogin_needed, exit_status>>

\* One pass of the for loop of get_plant_info, lines 272-312.
PollAttempt ==
    /\ pc = "poll_try"
    /\ \/ /\ ~connected
          /\ PollEnd(WiFiNotConnectedError)
          /\ UNCHANGED <<headers, api_power, wire, reqs>>
       \/ /\ connected
          /\ headers' = [headers EXCEPT !.Cookie = api_cookies]
          /\ reqs' = reqs + 1
          /\ request' = [kind |-> "poll", headers |-> headers', plantId |-> api_plant_id]
          /\ \/ \E e \in RequestErrors :
                  /\ PollEnd(e)
                  /\ response' = NoResponse
                  /\ UNCHANGED <<api_power, response_open>>
             \/ \E r \in PollResponses :
                  LET b == PollBody(r)
                  IN  /\ response' = r
                      /\ response_open' = b.open
                      /\ api_power' = b.power
                      /\ PollEnd(b.error)
    /\ UNCHANGED <<config, env, password, op, session, readout, main_resets, exit_status>>

(***************************************************************************)
(* The main loop.                                                          *)
(***************************************************************************)
\* PollInterval with "power > threshold" in place of "power >= threshold"
PollInterval_Strict(w) == IF minimum_power_threshold < w THEN ShortInterval ELSE LongInterval

\* time.sleep after a reading, lines 331-334
PollInterval(w) == IF minimum_power_threshold <= w THEN ShortInterval ELSE LongInterval

\* get_plant_info returned: update_display(api.power), then the sleep that
\* depends on the reading, lines 327-334.
MainShow ==
    /\ pc = "main_show"
    /\ IF api_power = <<>>
       THEN /\ UNCHANGED readout
            /\ last_sleep' = 0
       ELSE /\ readout' = Readout("W", api_power[1])
            /\ last_sleep' = PollInterval(api_power[1])
    /\ pc' = "main_poll"
    /\ UNCHANGED <<config, env, password, ret, link, op, i, session, headers, api_power, wire,
                   caught, raised, effects, main_resets, relogin_needed, exit_status>>

\* MainHandler without the inner "except NotLoggedIn" clause
MainHandler_NoInnerNotLoggedIn(o, c) ==
    IF c = "NotLoggedIn" THEN "NotLoggedIn"
    ELSE IF c = "SerialLoginErrors" THEN "SerialLoginErrors"
    ELSE "bare"

\* MainHandler without the outer "except NotLoggedIn" clause
MainHandler_NoOuterNotLoggedIn(o, c) ==
    IF o = "poll" /\ c = "NotLoggedIn" THEN "inner NotLoggedIn"
    ELSE IF c = "SerialLoginErrors" THEN "SerialLoginErrors"
    ELSE "bare"

\* Which except clause of the main loop takes an error of class c raised by
\* call o: the inner "except NotLoggedIn" guards get_plant_info only.
MainHandler(o, c) ==
    IF o = "poll" /\ c = "NotLoggedIn" THEN "inner NotLoggedIn"
    ELSE IF c = "NotLoggedIn" THEN "NotLoggedIn"
    ELSE IF c = "SerialLoginErrors" THEN "SerialLoginErrors"
    ELSE "bare"

\* "continue" in place of "break"
AfterPollNotLoggedIn_Continue == "main_poll"
\* break, line 342: out of the inner loop, back to api.login
AfterPollNotLoggedIn == "main_login"

\* except NotLoggedIn of the inner loop, lines 338-342: break
ExceptPollNotLoggedIn ==
    /\ pc = "main_except"
    /\ MainHandler(op, raised.cls) = "inner NotLoggedIn"
    /\ pc' = AfterPollNotLoggedIn
    /\ raised' = NoError
    /\ last_sleep' = 0
    /\ UNCHANGED <<config, env, password, ret, link, op, i, session, headers, api_power, readout,
                   wire, caught, effects, main_resets, relogin_needed, exit_status>>

\* except NotLoggedIn of the outer loop, lines 343-346: exit(1)
ExceptNotLoggedIn ==
    /\ pc = "main_except"
    /\ MainHandler(op, raised.cls) = "NotLoggedIn"
    /\ pc' = "exited"
    /\ exit_status' = 1
    /\ last_sleep' = 0
    /\ UNCHANGED <<config, env, password, ret, link, op, i, session, headers, api_power, readout,
                   wire, caught, raised, effects, main_resets, relogin_needed>>

\* ExceptSerialLoginErrors without wifi.reset()
ExceptSerialLoginErrors_NoReset ==
    /\ pc = "main_except"
    /\ MainHandler(op, raised.cls) = "SerialLoginErrors"
    /\ raised' = NoError
    /\ pc' = "main_login"
    /\ last_sleep' = 0
    /\ UNCHANGED <<config, env, password, ret, link, op, i, session, headers, api_power, readout,
                   wire, caught, effects, main_resets, relogin_needed, exit_status>>

\* except SerialLoginErrors, lines 347-352: wifi.reset(), then the outer
\* loop calls login again
ExceptSerialLoginErrors ==
    /\ pc = "main_except"
    /\ MainHandler(op, raised.cls) = "SerialLoginErrors"
    /\ raised' = NoError
    /\ main_resets' = main_resets + 1
    /\ connected' = FALSE
    /\ ap_failed' = FALSE
    /\ pc' = "wifi_connect"
    /\ ret' = "main_login"
    /\ last_sleep' = 0
    /\ UNCHANGED <<config, env, password, op, i, session, headers, api_power, readout, wire,
                   caught, effects, relogin_needed, exit_status>>

\* ExceptUnknown with the option ignored: exit(1) always
ExceptUnknown_AlwaysExit ==
    /\ pc = "main_except"
    /\ MainHandler(op, raised.cls) = "bare"
    /\ pc' = "exited"
    /\ exit_status' = 1
    /\ last_sleep' = 0
    /\ UNCHANGED <<config, env, password, ret, link, raised, main_resets, op, i, session,
                   headers, api_power, readout, wire, caught, effects,
                   relogin_needed>>

\* the bare except, lines 353-363
ExceptUnknown ==
    /\ pc = "main_except"
    /\ MainHandler(op, raised.cls) = "bare"
    /\ IF always_retry_after_any_exception
       THEN /\ raised' = NoError
            /\ last_sleep' = UnknownDelay
            /\ main_resets' = main_resets + 1
            /\ connected' = FALSE
            /\ ap_failed' = FALSE
            /\ pc' = "wifi_connect"
            /\ ret' = "main_login"
            /\ UNCHANGED exit_status
       ELSE /\ pc' = "exited"
            /\ exit_status' = 1
            /\ last_sleep' = 0
            /\ UNCHANGED <<ret, link, raised, main_resets>>
    /\ UNCHANGED <<config, env, password, op, i, session, headers, api_power, readout, wire,
                   caught, effects, relogin_needed>>

Next ==
    \/ MainLogin
    \/ LoginAttempt
    \/ MainPoll
    \/ PollAttempt
    \/ MainShow
    \/ ExceptPollNotLoggedIn
    \/ ExceptNotLoggedIn
    \/ ExceptSerialLoginErrors
    \/ ExceptUnknown
    \/ WifiConnectAP
    \/ WifiConnectReturn
    \/ LinkDrop

Spec == Init /\ [][Next]_vars

\* The login call on every hexdigest of HexStrings
HashInit ==
    /\ password_md5 \in HexStrings
    /\ Start
HashSpec == HashInit /\ [][MainLogin]_vars

(***************************************************************************)
(* The program under an environment that settles.  The link goes down     *)
(* only when the program resets it.  At some point, with the link          *)
(* connected, the environment settles for good: from then on connect_AP    *)
(* succeeds, every request is answered, and the answers are the ones mode  *)
(* m allows.  env.at keeps the call whose error was on its way to the main *)
(* loop then, if one was.                                                  *)
(***************************************************************************)
\* a login response with success true, a cookie and a plant list
ClaimedLogin(r) ==
    /\ r.kind = "login" /\ r.json /\ r.success
    /\ r.cookie # None /\ r.plants # <<>>

\* a login response login() returns on: ClaimedLogin with back.user too
CompleteLogin(r) == ClaimedLogin(r) /\ r.user

\* a poll response with status 200 and a power field float() accepts
GoodPoll(r) ==
    /\ r.kind = "poll" /\ r.status = StatusOK /\ r.body.json
    /\ r.body.deviceList = "list" /\ r.body.devices # <<>>
    /\ r.body.devices[1].power.tag = "str"
    /\ IsNumeral(r.body.devices[1].power.text)

Settled == env.mode # "any"

\* Until it settles the environment answers requests only up to the first
\* poll request (the one that puts the Cookie into the headers); later
\* requests wait for it to settle.
Early == headers.Cookie = None

EnvSettles ==
    /\ env = Unsettled
    /\ connected
    /\ \E m \in {"claimed", "complete"} :
         env' = [mode |-> m, at |-> IF pc = "main_except" THEN op ELSE "none"]
    /\ UNCHANGED <<config, password, pc, ret, link, op, i, session, headers,
                   api_power, readout, wire, caught, raised, effects,
                   main_resets, last_sleep, relogin_needed, exit_status>>

SettledLoginAttempt ==
    /\ LoginAttempt
    /\ ~Settled => Early
    /\ Settled => reqs' = reqs + 1
    /\ env.mode = "claimed" => ClaimedLogin(response')
    /\ env.mode = "complete" => CompleteLogin(response')

SettledPollAttempt ==
    /\ PollAttempt
    /\ ~Settled => Early
    /\ Settled => (reqs' = reqs + 1 /\ GoodPoll(response'))

SettledWifiConnectAP == WifiConnectAP /\ (Settled => connected')

\* the next statement of the program
Program ==
    \/ MainLogin
    \/ SettledLoginAttempt
    \/ MainPoll
    \/ SettledPollAttempt
    \/ MainShow
    \/ ExceptPollNotLoggedIn
    \/ ExceptNotLoggedIn
    \/ ExceptSerialLoginErrors
    \/ ExceptUnknown
    \/ SettledWifiConnectAP
    \/ WifiConnectReturn

LiveNext ==
    \/ Program
    \/ EnvSettles

\* The interpreter always runs the next statement: weak fairness of Program
LiveSpec == Init /\ [][LiveNext]_vars /\ WF_vars(Program)

(***************************************************************************)
(* Properties.                                                             *)
(***************************************************************************)

\* C1 (as stated): when get_plant_info has caught 3 failures in one call it
\* raises the serial-failure error SerialLoginErrors, not NotLoggedIn.
C1_PollRaisesSerialFailure ==
    (pc = "main_except" /\ op = "poll" /\ fails = 3)
        => raised.cls = "SerialLoginErrors"

\* C1 (amended): one call of get_plant_info makes at most 3 attempts and
\* sends at most 3 requests; once it has caught 3 failures the call is over
\* and what it raised is NotLoggedIn("Serial errors. Trying login again."),
\* which it raises after exactly 3 caught failures and never earlier.
C1_PollGivesUpAfterThree ==
    /\ op = "poll" => (i <= 3 /\ reqs <= 3 /\ fails <= 3)
    /\ (op = "poll" /\ fails = 3) => pc \in {"main_except", "main_login"}
    /\ (pc = "main_except" /\ op = "poll" /\ fails = 3)
          => (raised.cls = "NotLoggedIn"
              /\ raised.msg = "Serial errors. Trying login again.")
    /\ (op = "poll" /\ raised.msg = "Serial errors. Trying login again.")
          => fails = 3

\* C1 witness: a poll call gave up after three requests that all failed.
C1_Witness ==
    /\ pc = "main_except" /\ op = "poll"
    /\ fails = 3 /\ reqs = 3
    /\ raised.msg = "Serial errors. Trying login again."

\* C2 (as stated): when the next login is about to be called after a call
\* that used up its attempts (login after 2 failures, poll after 3), the
\* main loop has reset the link exactly once since that call.
C2_ResetAfterEitherStage ==
    (pc = "main_login" /\ ((op = "login" /\ fails = 2) \/ (op = "poll" /\ fails = 3)))
        => main_resets = 1

\* C2 (amended): after login used up its attempts the main loop resets the
\* link exactly once before the next login; get_plant_info never raises
\* SerialLoginErrors, and after it used up its attempts the next login is
\* called with no reset by the main loop.
C2_ResetAfterLoginOnly ==
    /\ (pc = "main_login" /\ op = "login" /\ fails = 2) => main_resets = 1
    /\ (pc = "main_except" /\ raised.cls = "SerialLoginErrors")
          => (op = "login" /\ main_resets = 0)
    /\ (pc = "main_login" /\ op = "poll" /\ fails = 3) => main_resets = 0
    /\ op = "poll" => raised.cls # "SerialLoginErrors"

\* C2 witness: login gave up, the link was reset once and is up again, and
\* the next login is about to be called.
C2_Witness ==
    /\ pc = "main_login" /\ op = "login" /\ fails = 2
    /\ main_resets = 1 /\ connected

\* C4: one call of login makes at most 2 attempts and sends at most 2
\* requests; once it has caught 2 failures the call is over with
\* SerialLoginErrors; the attempt number is 1 + the failures of this call,
\* so SerialLoginErrors is raised after exactly 2 failures of this call,
\* whatever earlier calls did.
C4_LoginGivesUpAfterTwo ==
    /\ op = "login" => (i <= 2 /\ reqs <= 2 /\ fails <= 2)
    /\ (op = "login" /\ pc = "login_try") => i = fails + 1
    /\ (op = "login" /\ fails = 2)
          => /\ pc \in {"main_except", "wifi_connect", "main_login"}
             /\ pc = "main_except" => raised.cls = "SerialLoginErrors"
             /\ pc = "wifi_connect" => ret = "main_login"
    /\ (op = "login" /\ raised.cls = "SerialLoginErrors") => fails = 2

\* C4 witness: a login made after a poll call had failed gave up after two
\* requests of its own that both failed.
C4_Witness ==
    /\ pc = "main_except" /\ op = "login"
    /\ raised.cls = "SerialLoginErrors"
    /\ fails = 2 /\ reqs = 2
    /\ relogin_needed

\* An attempt of the call in progress can still be followed by another one.
AttemptsRemain == (op = "login" /\ i < 2) \/ (op = "poll" /\ i < 3)

\* A step in which the retry handler of login or get_plant_info ran.
HandlerRan == fails' = fails + 1

\* C3 (as stated): when an attempt of login or poll finds the link down and
\* attempts remain, the operation calls wifi.connect() and goes on to the
\* next attempt of the same operation without the 20 second wait.
C3_LinkDownReconnects ==
    [][(pc \in {"login_try", "poll_try"} /\ ~connected /\ AttemptsRemain /\ HandlerRan)
          => /\ connects' = connects + 1
             /\ waits' = waits
             /\ last_sleep' = 0
             /\ pc' = "wifi_connect" /\ ret' = pc]_vars

\* The power field of a 200 response is malformed or missing: non-numeric
\* text, no 'power' key, null, or an empty, null or missing deviceList.
MalformedPower(r) ==
    /\ r.kind = "poll"
    /\ r.status = 200
    /\ r.body.json
    /\ \/ r.body.deviceList # "list"
       \/ r.body.devices = <<>>
       \/ r.body.devices[1].power.tag # "str"
       \/ ~IsNumeral(r.body.devices[1].power.text)

\* C5 (as stated): a poll response with a malformed or missing power field
\* ends the attempt with an error the retry handler catches, so the call
\* either retries or gives up with its own error, and the display still
\* shows the placeholder.
C5_MalformedPowerIsRetried ==
    (op = "poll" /\ MalformedPower(response))
        => /\ caught.cls \in {"RuntimeError", "ValueError", "OutOfRetries",
                              "WiFiNotConnected"}
           /\ raised.cls \in {"none", "NotLoggedIn"}
           /\ readout.text = ". . ."

\* The errors the spec calls transport or parse errors, as the handlers catch
\* them.
TransportOrParse == {"RuntimeError", "ValueError", "OutOfRetries"}

\* What the handler does when it waits and retries: the 20 second sleep,
\* no reset, no connect, the next attempt of the same operation.
WaitsAndRetries ==
    /\ last_sleep' = 20
    /\ waits' = waits + 1
    /\ resets' = resets /\ connects' = connects
    /\ connected' = connected
    /\ pc' = pc /\ op' = op /\ i' = i + 1

\* What the handler does when it resets the link: wifi.reset(), no sleep,
\* and the next attempt of the same operation once connect() returns.
ResetsAndRetries ==
    /\ last_sleep' = 0
    /\ waits' = waits
    /\ resets' = resets + 1 /\ connects' = connects
    /\ ~connected'
    /\ pc' = "wifi_connect" /\ ret' = pc /\ op' = op /\ i' = i + 1

\* C6 (as stated): every transport or parse error caught while attempts
\* remain is followed by the 20 second wait and the next attempt, with no
\* reset and no connect.
C6_EveryErrorWaits ==
    [][(HandlerRan /\ AttemptsRemain /\ caught'.cls \in TransportOrParse)
          => WaitsAndRetries]_vars

\* C6 (amended): a RuntimeError, ValueError or OutOfRetries caught while
\* attempts remain is followed by the 20 second wait and the next attempt
\* with no reset and no connect, unless its message is "Error response to
\* command": that one is followed by wifi.reset(), no wait, and the next
\* attempt.
C6_ErrorWaitsOrResets ==
    [][(HandlerRan /\ AttemptsRemain /\ caught'.cls \in TransportOrParse)
          => IF caught'.msg = "Error response to command"
             THEN ResetsAndRetries
             ELSE WaitsAndRetries]_vars

\* C6 witness: the first poll attempt got a body that is not JSON, the call
\* waited 20 seconds and is at its second attempt.
C6_Witness ==
    /\ pc = "poll_try" /\ i = 2
    /\ caught.cls = "ValueError"
    /\ response.kind = "poll" /\ ~response.body.json
    /\ waits = 1 /\ last_sleep = 20 /\ resets = 0 /\ connects = 0

\* A step in which login received a response with success false.
LoginIsRejected ==
    /\ op = "login" /\ reqs' = reqs + 1
    /\ response'.kind = "login" /\ response'.json /\ ~response'.success

\* C7: a login response with success false ends the call at once with
\* NotLoggedIn, on whichever attempt it arrives: the handler does not run,
\* nothing is slept, the link is neither reset nor reconnected, and no
\* further attempt follows.
C7_RejectionIsImmediate ==
    [][LoginIsRejected
          => /\ pc' = "main_except"
             /\ raised'.cls = "NotLoggedIn"
             /\ fails' = fails /\ i' = i
             /\ waits' = waits /\ last_sleep' = 0
             /\ resets' = resets /\ connects' = connects
             /\ connected' = connected
             /\ ~response_open']_vars

\* C7 witness: the second attempt of a login was rejected, after a first
\* attempt that failed and was waited on.
C7_Witness ==
    /\ pc = "main_except" /\ op = "login"
    /\ raised.cls = "NotLoggedIn"
    /\ response.kind = "login" /\ response.json /\ ~response.success
    /\ i = 2 /\ reqs = 2 /\ waits = 1

\* What the program does and shows, without the link, which the
\* environment may still drop.
program == <<pc, ret, op, i, session, headers, api_power, readout, wire, caught,
             raised, effects, main_resets, last_sleep, relogin_needed,
             exit_status>>

\* C8: when login raised NotLoggedIn the next step of the program is
\* exit(1), with either setting of always_retry_after_any_exception; the
\* program exits with a non-zero status only, and once it has exited it
\* sends nothing, resets nothing and shows nothing more.
C8_RejectionIsTerminal ==
    [][/\ (pc = "main_except" /\ op = "login" /\ raised.cls = "NotLoggedIn"
              /\ pc' # pc)
          => (pc' = "exited" /\ exit_status' = 1
              /\ UNCHANGED <<reqs, request, main_resets, resets, readout, connected>>)
       /\ pc' = "exited" => exit_status' # 0
       /\ pc = "exited" => UNCHANGED program]_vars

\* C8 witness: the program has exited with status 1 on a rejected login
\* while the retry-after-any-exception option is on.
C8_Witness ==
    /\ pc = "exited" /\ exit_status = 1
    /\ op = "login" /\ raised.cls = "NotLoggedIn"
    /\ always_retry_after_any_exception

\* A step in which get_plant_info received a response whose status is not 200.
PollIsRefused ==
    /\ op = "poll" /\ reqs' = reqs + 1
    /\ response'.kind = "poll" /\ response'.status # 200

\* C9: a poll response with a status other than 200 ends the call at once
\* with NotLoggedIn("Apparently not logged in"), never SerialLoginErrors:
\* the handler does not run, nothing is slept, the link is neither reset
\* nor reconnected, and the stored power is as it was.
C9_Non200IsNotLoggedIn ==
    [][PollIsRefused
          => /\ pc' = "main_except"
             /\ raised'.cls = "NotLoggedIn"
             /\ raised'.msg = "Apparently not logged in"
             /\ fails' = fails /\ i' = i
             /\ waits' = waits /\ last_sleep' = 0
             /\ resets' = resets /\ connects' = connects
             /\ connected' = connected
             /\ api_power' = api_power]_vars

\* C9 witness: the first attempt of a poll got a status other than 200
\* while a reading from an earlier poll is stored.
C9_Witness ==
    /\ pc = "main_except" /\ op = "poll"
    /\ response.kind = "poll" /\ response.status # 200
    /\ raised.msg = "Apparently not logged in"
    /\ i = 1 /\ reqs = 1 /\ fails = 0
    /\ api_power # <<>>

\* C10: when get_plant_info raised NotLoggedIn the main loop goes back to
\* calling login; from then on every request sent is a login request until
\* a login attempt receives a successful response and stores the cookie of
\* that response, and only then can get_plant_info be called again.
C10_ReloginBeforePoll ==
    [][/\ (pc = "main_except" /\ op = "poll" /\ raised.cls = "NotLoggedIn"
              /\ pc' # pc)
          => pc' = "main_login"
       /\ (relogin_needed /\ reqs' = reqs + 1) => request'.kind = "login"
       /\ relogin_needed => pc \notin {"main_poll", "poll_try", "main_show"}
       /\ (relogin_needed /\ ~relogin_needed')
          => /\ op = "login"
             /\ response'.kind = "login" /\ response'.success
             /\ response'.cookie # None
             /\ api_cookies' = response'.cookie
             /\ pc' = "main_poll"]_vars

\* C10 witness: with the catch-all retry off, a login has succeeded after
\* polls were made with an earlier cookie, and stored a different cookie;
\* the next poll is about to be called.
C10_Witness ==
    /\ ~always_retry_after_any_exception
    /\ pc = "main_poll" /\ op = "login"
    /\ ~relogin_needed
    /\ headers.Cookie # None
    /\ api_cookies # headers.Cookie


\* C11 (as stated): in every state cookies and plant_id of the api object
\* are both unset or both set, and every poll request was sent with both.
C11_SessionAllOrNothing ==
    /\ (api_cookies = None) <=> (api_plant_id = None)
    /\ request.kind = "poll"
          => (request.headers.Cookie # None /\ request.plantId # None)

\* C11 (amended): cookies is never set while plant_id is unset, and
\* get_plant_info is called, and every poll request is sent, only with
\* both set; plant_id can be set while cookies is still unset.
C11_PollHasFullSession ==
    /\ api_cookies # None => api_plant_id # None
    /\ pc \in {"main_poll", "poll_try", "main_show"}
          => (api_cookies # None /\ api_plant_id # None)
    /\ request.kind = "poll"
          => /\ request.headers.Cookie # None
             /\ request.plantId # None

\* C11 witness: a poll request was sent with a cookie and a plant id.
C11_Witness ==
    /\ op = "poll" /\ reqs = 1
    /\ request.kind = "poll"
    /\ request.headers.Cookie = api_cookies /\ api_cookies # None
    /\ request.plantId = api_plant_id /\ api_plant_id # None


\* A step in which login received a response that says success and has the
\* user and a first plant.
LoginGetsPlants ==
    /\ op = "login" /\ reqs' = reqs + 1
    /\ response'.kind = "login" /\ response'.json /\ response'.success
    /\ response'.user /\ response'.plants # <<>>

\* C12: plant_id of the api object never changes once it is set; it is set
\* to the configured plant id when there is one, and otherwise by the first
\* login response that says success and lists a plant, to that response's
\* first plant; every poll request carries it, whatever later login
\* responses list.
C12_PlantIdIsFixed ==
    [][/\ api_plant_id # None => api_plant_id' = api_plant_id
       /\ plant_id # None => api_plant_id' \in {None, plant_id}
       /\ (api_plant_id = None /\ api_plant_id' # None /\ plant_id = None)
          => (LoginGetsPlants /\ api_plant_id' = response'.plants[1])
       /\ (api_plant_id = None /\ LoginGetsPlants)
          => api_plant_id' = response'.plants[1]
       /\ request'.kind = "poll"
          => (request'.plantId = api_plant_id' /\ request'.plantId # None)]_vars

\* C12 witness: no plant id is configured, polls were made, and a later
\* login has succeeded on a response whose first plant is another one than
\* the plant id in use.
C12_Witness ==
    /\ plant_id = None
    /\ pc = "main_poll" /\ op = "login"
    /\ request.kind = "login" /\ headers.Cookie # None
    /\ response.kind = "login" /\ response.success /\ response.plants # <<>>
    /\ response.plants[1] # api_plant_id


\* C13 (as stated): when an attempt of login or get_plant_info is over,
\* however it ended, the response it received has been closed, so no
\* response is open when the next request is sent or when the call ends.
C13_ResponsesAreClosed == ~response_open

\* an error of a class the main loop has no clause for is propagating
UnclassifiedRaised ==
    /\ pc = "main_except"
    /\ raised.cls \notin {"none", "WiFiNotConnected", "NotLoggedIn", "SerialLoginErrors"}

\* C14: when an error other than WiFiNotConnected, NotLoggedIn and
\* SerialLoginErrors leaves login or get_plant_info, the program's next step
\* is exit(1) if always_retry_after_any_exception is off; if it is on, the
\* step is sleep(10) and wifi.reset() with the process still running, and
\* the connect that follows can only return to the login call.
C14_UnclassifiedExitsOrResets ==
    [][/\ (UnclassifiedRaised /\ pc' # pc)
          => IF always_retry_after_any_exception
             THEN /\ pc' = "wifi_connect" /\ ret' = "main_login"
                  /\ main_resets' = main_resets + 1 /\ ~connected'
                  /\ last_sleep' = UnknownDelay
                  /\ raised' = NoError /\ exit_status' = 0
             ELSE /\ pc' = "exited" /\ exit_status' = 1
       /\ (pc = "wifi_connect" /\ main_resets > 0 /\ pc' # pc)
          => (pc' = "main_login" /\ exit_status' = 0)]_vars

C14_Witness ==
    /\ always_retry_after_any_exception
    /\ pc = "main_login" /\ main_resets = 1 /\ exit_status = 0
    /\ op = "poll" /\ response.kind = "poll" /\ MalformedPower(response)

\* get_plant_info has returned with reading r and the main loop takes its
\* next step
ReadingReturned(r) ==
    /\ pc = "main_show"
    /\ api_power = <<r>>
    /\ pc' # pc

\* C15: after get_plant_info returns reading r the display shows r, the
\* program sleeps 120 seconds if r >= 10 and 1200 seconds if r < 10 (so
\* r = 10 sleeps 120), and the next thing it does is poll again.
C15_IntervalFollowsReading ==
    [][\A r \in -1..13 :
          ReadingReturned(r)
          => /\ readout' = Readout("W", r)
             /\ r >= 10 => last_sleep' = 120
             /\ r < 10 => last_sleep' = 1200
             /\ pc' = "main_poll"]_vars

C15_Witness ==
    /\ pc = "main_poll" /\ op = "poll"
    /\ api_power = <<minimum_power_threshold>>
    /\ readout = Readout("W", minimum_power_threshold)
    /\ last_sleep = ShortInterval

\* the same with a reading below the threshold
C15_WitnessLow ==
    /\ pc = "main_poll" /\ op = "poll"
    /\ api_power = <<9>>
    /\ readout = Readout("W", 9)
    /\ last_sleep = LongInterval

\* C16: the password login posts has the length of the md5 hexdigest, has
\* "c" at every even offset where the hexdigest has "0", and equals the
\* hexdigest at every other offset, odd offsets holding "0" included; two
\* hexdigests that are equal give equal results.
C16_HashQuirk ==
    password # <<>>
    => /\ op = "login"
       /\ Len(password) = Len(password_md5)
       /\ \A k \in 0..(Len(password_md5) - 1) :
             password[k + 1] = IF k % 2 = 0 /\ password_md5[k + 1] = "0"
                               THEN "c"
                               ELSE password_md5[k + 1]
       /\ \A h \in HexStrings : h = password_md5 => hash_password(h) = password

C16_Witness ==
    /\ pc = "login_try"
    /\ password_md5 = <<"0", "0", "0", "0">>
    /\ password = <<"c", "0", "c", "0">>

\* the last poll response carried a power field float() accepts
PollSucceeded ==
    /\ op = "poll"
    /\ pc \in {"main_show", "main_poll"}
    /\ response.kind = "poll"

\* m is the number written as text t with its fraction dropped
IsTruncationOf(m, t) ==
    LET x == Float(t)
        a == IF m < 0 THEN 0 - m ELSE m
    IN  /\ a * x.den <= x.num
        /\ x.num < (a + 1) * x.den
        /\ x.neg => m <= 0
        /\ ~x.neg => m >= 0

ResetCalled ==
    \/ resets' = resets + 1
    \/ main_resets' = main_resets + 1

\* C18: connect() is left only with the link connected and only by
\* returning to its caller; a connect_AP that fails keeps the program in
\* the loop of connect() with no error raised and no attempt count that
\* could end it; wifi.reset() first resets the hardware (the link is down)
\* and then is in connect(), so it too ends only with the link connected.
C18_ConnectReturnsConnected ==
    [][/\ pc = "wifi_connect"
          => /\ pc' \in {"wifi_connect", ret}
             /\ raised' = raised /\ caught' = caught
             /\ exit_status' = exit_status
             /\ pc' # pc => (connected /\ connected')
             /\ ~connected' => pc' = "wifi_connect"
       /\ ResetCalled => (~connected' /\ pc' = "wifi_connect")]_vars

C18_Witness ==
    /\ pc = "main_login" /\ main_resets = 1
    /\ ap_failed /\ connected
    /\ raised = NoError /\ exit_status = 0

\* C19 (as stated): every login request, a re-login after polls included,
\* is sent with the five headers the class defines and no Cookie header.
C19_LoginHeadersAreFixed ==
    request.kind = "login" => request.headers = ClassHeaders

\* update_display has just shown a reading
Forwarded ==
    /\ pc = "main_poll" /\ op = "poll"
    /\ api_power # <<>> /\ readout = Readout("W", api_power[1])

\* an error that ends the process is on its way to the main loop
FatalPending ==
    /\ pc = "main_except"
    /\ \/ op = "login" /\ raised.cls = "NotLoggedIn"
       \/ /\ raised.cls \notin {"none", "NotLoggedIn", "SerialLoginErrors"}
          /\ ~always_retry_after_any_exception

Running == pc # "exited" /\ ~FatalPending

\* C20 (as stated, counted from a point where the process is running and no
\* fatal error is pending): once the link stays connected, every login
\* response has success true, a cookie and a plant list, and every poll
\* response has status 200 and a well-formed power field, the process keeps
\* running and a reading is shown again and again.
C20_ClaimedEnvironmentSuffices ==
    /\ [][(env.mode = "claimed" /\ Running) => Running']_vars
    /\ (env.mode = "claimed" /\ Running) ~> Forwarded

\* C20 (amended): the same with every login response carrying back.user as
\* well.
C20_ReadingsKeepComing ==
    /\ [][(env.mode = "complete" /\ Running) => Running']_vars
    /\ (env.mode = "complete" /\ Running) ~> Forwarded

\* the environment settled while an error of login was on its way to the
\* main loop; the link was reset, login succeeded and a reading is shown
C20_Witness ==
    /\ env.mode = "complete" /\ env.at = "login"
    /\ Forwarded

=============================================================================
